---------------------------- MODULE Spec2Model ----------------------------
(***************************************************************************)
(* A model of the MPR reporting application: the fact table mpr_report     *)
(* with its reference tables (src/mpr/models.py), the /records endpoint    *)
(* (src/mpr/routes.py), the remove_filter template filter and the batch    *)
(* commands load-data and migrate-data (src/main.py).                      *)
(*                                                                         *)
(* SQL NULL / Python None is written NullStr for text columns and NullInt  *)
(* for integer columns; neither is a value the data or a request carries.  *)
(* SQL's three-valued logic is kept: a comparison with NULL is "U".        *)
(***************************************************************************)
EXTENDS Integers, Sequences, FiniteSets, TLC

VARIABLES
    reports,      \* mpr_report as committed: a sequence of rows, id = index
    states,       \* the states table: a set of [id, name]
    rusa_phases,  \* the rusa_phases table: a set of [id, name]
    components,   \* the components table: a set of [id, name]
    resp,         \* what /records rendered for the last request
    nav,          \* the browser's query string and the filter link followed
    migration,    \* the migrate-data command in progress and its runs' outputs
    load,         \* the load-data command in progress: its session and input
    populate      \* the populate-restored-columns command in progress

vars ==
    <<reports, states, rusa_phases, components, resp, nav, migration, load,
      populate>>

-----------------------------------------------------------------------------
(* Bounds of the model. *)

MaxReports == 2
MaxSummaryReports == 2
MaxFilterReports == 2
MaxQueryLen == 3
MaxMigrateReports == 2
MaxSheetRows == 2
MaxRuns == 2
MaxOrderReports == 3
MaxPageReports == 41

-----------------------------------------------------------------------------
(* NULL and SQL's three-valued logic. *)

NullStr == "<NULL>"
NullInt == 0

Not3(a) == CASE a = "T" -> "F" [] a = "F" -> "T" [] OTHER -> "U"

And3(a, b) ==
    IF a = "F" \/ b = "F" THEN "F"
    ELSE IF a = "T" /\ b = "T" THEN "T"
    ELSE "U"

\* column == value as SQLAlchemy renders it: IS NULL when the Python value is
\* None, and otherwise "=", which is unknown on a NULL column.
EqStr3(col, val) ==
    IF val = NullStr THEN (IF col = NullStr THEN "T" ELSE "F")
    ELSE IF col = NullStr THEN "U"
    ELSE IF col = val THEN "T" ELSE "F"

EqInt3(col, val) ==
    IF val = NullInt THEN (IF col = NullInt THEN "T" ELSE "F")
    ELSE IF col = NullInt THEN "U"
    ELSE IF col = val THEN "T" ELSE "F"

\* column IN (values): a WHERE clause keeps a row only when this is true, and
\* it is unknown, never true, on a NULL column.
InStr(col, sel) == col # NullStr /\ col \in sel

InInt(col, sel) == col # NullInt /\ col \in sel

-----------------------------------------------------------------------------
(* The reference tables and the fact rows. *)

\* The seed list of migrate-data, cut to four of its thirty-six names: one with
\* an ampersand, the one the alias table points at, and two plain ones.
STATES ==
    <<"Andaman & Nicobar Islands", "Dadra and Nagar Haveli and Daman and Diu",
      "Goa", "Kerala">>

RUSA_PHASES == <<"RUSA 1", "RUSA 2", "PM-UShA">>

\* normalize-components' catalogue, cut to two names.
COMPONENTS == <<"Equity Initiative", "Faculty Improvement">>

\* A table seeded from a list: autoincrement ids in insertion order.
SeededTable(names) == {[id |-> i, name |-> names[i]] : i \in DOMAIN names}

IdOf(table, name) ==
    IF \E t \in table : t.name = name
    THEN (CHOOSE t \in table : t.name = name).id
    ELSE NullInt

\* The name an outer join on a foreign key yields: NULL when the key is NULL
\* or points at no row.
JoinedName(table, fk) ==
    IF \E t \in table : t.id = fk
    THEN (CHOOSE t \in table : t.id = fk).name
    ELSE NullStr

StateName(r) == JoinedName(states, r.state_id)
RusaPhaseName(r) == JoinedName(rusa_phases, r.rusa_phase_id)
ComponentName(r) == JoinedName(components, r.component_id)

\* A fact row as the dashboard finds it: the raw state and phase texts, the
\* foreign keys of the reference rows of those names and of the component
\* named comp (NULL for a name no reference row has), and the supplementary
\* columns not yet filled. mpr_report has no column for the component's name.
MprReport(st, ph, comp, inst, dist, status, yr, mon, pm) ==
    [state |-> st,
     rusa_phase |-> ph,
     state_id |-> IdOf(SeededTable(STATES), st),
     rusa_phase_id |-> IdOf(SeededTable(RUSA_PHASES), ph),
     component_id |-> IdOf(SeededTable(COMPONENTS), comp),
     institution_name |-> inst,
     district |-> dist,
     project_status |-> status,
     year |-> yr,
     months |-> mon,
     whether_pm_digitally_launched_project_yes_no_ |-> pm,
     benfits_from_the_projects_please_provide_details_ |-> NullStr,
     number_of_students_benefitted |-> NullInt,
     number_of_faculties_benefitted |-> NullInt,
     number_of_research_works_being_undertaken |-> NullInt,
     physical_inspection_reports_pir_ |-> NullStr,
     pir_uploaded_yes_no_not_selected_ |-> NullStr]


-----------------------------------------------------------------------------
(* /records: the filters. *)

FilterKeys ==
    {"state", "rusa_phase", "component_name", "institution_name", "district",
     "project_status", "year", "months"}

\* request.args.getlist for every filter key; a key the query string does not
\* carry yields the empty list.
NoFilters == [k \in FilterKeys |-> {}]

\* Python's int() on the year strings the model's requests carry: it accepts
\* an optional sign, leading zeros and surrounding blanks, and raises
\* ValueError on anything else (the empty string included).
IsIntLiteral(y) == y \in {"2024", "2025", "02025", " 2024"}

IntOf(y) ==
    CASE y = "2024" -> 2024
      [] y = " 2024" -> 2024
      [] y = "2025" -> 2025
      [] y = "02025" -> 2025

\* int(y) for y in filters['year'] raises on a string that is no integer.
YearFilterRaises(f) == \E y \in f.year : ~IsIntLiteral(y)

\* MatchesFilters, were the year filter left out of the chain.
MatchesFiltersButYear(r, f) ==
    /\ f.state # {} => InStr(StateName(r), f.state)
    /\ f.rusa_phase # {} => InStr(RusaPhaseName(r), f.rusa_phase)
    /\ f.component_name # {} => InStr(ComponentName(r), f.component_name)
    /\ f.institution_name # {} => InStr(r.institution_name, f.institution_name)
    /\ f.district # {} => InStr(r.district, f.district)
    /\ f.project_status # {} => InStr(r.project_status, f.project_status)
    /\ f.months # {} => InStr(r.months, f.months)

\* The chain of query.filter calls: each is applied only when its list is
\* non-empty.
MatchesFilters(r, f) ==
    /\ f.state # {} => InStr(StateName(r), f.state)
    /\ f.rusa_phase # {} => InStr(RusaPhaseName(r), f.rusa_phase)
    /\ f.component_name # {} => InStr(ComponentName(r), f.component_name)
    /\ f.institution_name # {} => InStr(r.institution_name, f.institution_name)
    /\ f.district # {} => InStr(r.district, f.district)
    /\ f.project_status # {} => InStr(r.project_status, f.project_status)
    /\ f.year # {} => InInt(r.year, {IntOf(y) : y \in f.year})
    /\ f.months # {} => InStr(r.months, f.months)

\* The ids of the rows of `query`.
Filtered(f) == {i \in DOMAIN reports : MatchesFilters(reports[i], f)}

-----------------------------------------------------------------------------
(* /records: the chronological order. *)

\* month_order, were the month names matched without regard to case.
MonthOrderIgnoringCase(m) ==
    CASE m \in {"June", "june"} -> 6
      [] m \in {"October", "october"} -> 10
      [] m \in {"December", "december"} -> 12
      [] OTHER -> 0

month_order(m) ==
    CASE m = "January" -> 1 [] m = "February" -> 2 [] m = "March" -> 3
      [] m = "April" -> 4 [] m = "May" -> 5 [] m = "June" -> 6
      [] m = "July" -> 7 [] m = "August" -> 8 [] m = "September" -> 9
      [] m = "October" -> 10 [] m = "November" -> 11 [] m = "December" -> 12
      [] OTHER -> 0

\* SQLite orders NULL below every value: desc(year) puts a NULL year last.
YearKey(y) == IF y = NullInt THEN -1 ELSE y

\* Row a comes strictly before row b under desc(year), desc(month_order).
MoreRecent(a, b) ==
    \/ YearKey(a.year) > YearKey(b.year)
    \/ /\ YearKey(a.year) = YearKey(b.year)
       /\ month_order(a.months) > month_order(b.months)

\* The rows .first() may return under that order: those no row precedes.
FirstRows(ids) ==
    {i \in ids : \A j \in ids : ~MoreRecent(reports[j], reports[i])}

\* LatestScope, were the latest period taken from the filtered query.
LatestScopeFiltered(f) == Filtered(f)

\* The rows the latest period is taken from: MprReport.query, the whole table.
LatestScope(f) == DOMAIN reports

\* latest_month_year: the (year, months) of a first row of the scope.
LatestPeriods(f) ==
    {<<reports[i].year, reports[i].months>> : i \in FirstRows(LatestScope(f))}

-----------------------------------------------------------------------------
(* /records: the missing-report detector. *)

project_key(r) ==
    <<StateName(r), RusaPhaseName(r), ComponentName(r),
      r.institution_name, r.district>>

\* The rows of `ids` in the partition of row i (PARTITION BY groups NULLs).
Partition(ids, i) ==
    {j \in ids : project_key(reports[j]) = project_key(reports[i])}

\* The rows row_number() is computed over: the filtered query.
RankScope(f) == Filtered(f)

\* The sets of rows row_number() may number 1: one row of every partition,
\* which no row of its partition precedes; the order among ties is the
\* database's choice.
RankOneChoices(f) ==
    UNION {{{pick[part] : part \in parts} :
              pick \in {h \in [parts -> RankScope(f)] :
                          \A part \in parts : h[part] \in FirstRows(part)}} :
           parts \in {{Partition(RankScope(f), i) : i \in RankScope(f)}}}

\* ~and_(year == latest_year, months == latest_month) as a WHERE clause.
NotLatest(r, lp) ==
    Not3(And3(EqInt3(r.year, lp[1]), EqStr3(r.months, lp[2]))) = "T"

\* missing_reports_q: rank 1, Ongoing, not of the latest period.
MissingReports(rn1, lp) ==
    {i \in rn1 : /\ EqStr3(reports[i].project_status, "Ongoing") = "T"
                 /\ NotLatest(reports[i], lp)}

-----------------------------------------------------------------------------
(* /records: the grouped summaries. *)

PM(r) == r.whether_pm_digitally_launched_project_yes_no_

\* analytics_query: the filtered rows whose three joined names are all there.
AnalyticsRows(f) ==
    {i \in Filtered(f) : /\ StateName(reports[i]) # NullStr
                         /\ RusaPhaseName(reports[i]) # NullStr
                         /\ ComponentName(reports[i]) # NullStr}

\* The rows month_year_summary groups: `query`, the filtered rows.
MonthYearRows(f) == Filtered(f)

Categories ==
    <<"total", "ongoing", "completed", "pm_launched", "pm_ongoing", "pm_completed">>

\* func.count / func.sum(case(...)) of one category over the rows of a group.
CategoryCount(ids, cat) ==
    Cardinality({i \in ids :
        CASE cat = "total" -> TRUE
          [] cat = "ongoing" -> reports[i].project_status = "Ongoing"
          [] cat = "completed" -> reports[i].project_status = "Completed"
          [] cat = "pm_launched" -> PM(reports[i]) = "Yes"
          [] cat = "pm_ongoing" ->
                PM(reports[i]) = "Yes" /\ reports[i].project_status = "Ongoing"
          [] cat = "pm_completed" ->
                PM(reports[i]) = "Yes" /\ reports[i].project_status = "Completed"})

\* interactive_summary_query: one row per (state, phase) of the analytics rows.
InteractiveSummaryRows(f) ==
    {[state |-> sp[1], rusa_phase |-> sp[2],
      counts |-> [c \in DOMAIN Categories |->
          CategoryCount({i \in AnalyticsRows(f) :
                            /\ StateName(reports[i]) = sp[1]
                            /\ RusaPhaseName(reports[i]) = sp[2]},
                        Categories[c])]] :
       sp \in {<<StateName(reports[i]), RusaPhaseName(reports[i])>> :
                  i \in AnalyticsRows(f)}}

\* What the defaultdict yields for a state it has not seen.
NewStateEntry ==
    [c \in DOMAIN Categories |-> [count |-> 0, phases |-> [p \in {} |-> 0]]]

\* phases[phase] += n on a defaultdict(int).
AddPhase(phases, phase, n) ==
    [p \in DOMAIN phases \cup {phase} |->
        (IF p \in DOMAIN phases THEN phases[p] ELSE 0) + (IF p = phase THEN n ELSE 0)]

\* AddCategory, were the state's count to take one per summary row instead of
\* the row's count.
AddCategoryPerRow(data, row, c) ==
    IF row.counts[c] > 0
    THEN [count |-> data.count + 1,
          phases |-> AddPhase(data.phases, row.rusa_phase, row.counts[c])]
    ELSE data

\* The body of the loop over the categories of one summary row, for one
\* category: both sums take row[i], and only when it is positive.
AddCategory(data, row, c) ==
    IF row.counts[c] > 0
    THEN [count |-> data.count + row.counts[c],
          phases |-> AddPhase(data.phases, row.rusa_phase, row.counts[c])]
    ELSE data

\* One turn of the loop over the summary rows. A state's entry is made when a
\* positive count first touches it.
AddSummaryRow(acc, row) ==
    IF \A c \in DOMAIN Categories : row.counts[c] <= 0
    THEN acc
    ELSE LET old == IF row.state \in DOMAIN acc THEN acc[row.state] ELSE NewStateEntry
         IN  [s \in DOMAIN acc \cup {row.state} |->
                 IF s = row.state
                 THEN [c \in DOMAIN Categories |-> AddCategory(old[c], row, c)]
                 ELSE acc[s]]

RECURSIVE Aggregate(_, _)
Aggregate(rows, acc) ==
    IF rows = {} THEN acc
    ELSE LET row == CHOOSE r \in rows : TRUE
         IN  Aggregate(rows \ {row}, AddSummaryRow(acc, row))

\* state -> category -> {count, phases}
StateSummaryInteractive(f) == Aggregate(InteractiveSummaryRows(f), [s \in {} |-> 0])

\* (state, phase) -> count
StatePhaseSummary(f) ==
    {<<sp[1], sp[2],
       Cardinality({i \in AnalyticsRows(f) :
            /\ StateName(reports[i]) = sp[1]
            /\ RusaPhaseName(reports[i]) = sp[2]})>> :
       sp \in {<<StateName(reports[i]), RusaPhaseName(reports[i])>> :
                  i \in AnalyticsRows(f)}}

\* (state, phase, component) -> count
StatePhaseComponentSummary(f) ==
    {<<k[1], k[2], k[3],
       Cardinality({i \in AnalyticsRows(f) :
            /\ StateName(reports[i]) = k[1]
            /\ RusaPhaseName(reports[i]) = k[2]
            /\ ComponentName(reports[i]) = k[3]})>> :
       k \in {<<StateName(reports[i]), RusaPhaseName(reports[i]),
                ComponentName(reports[i])>> : i \in AnalyticsRows(f)}}

\* (year, months) -> count; GROUP BY makes one group of the NULLs.
MonthYearSummary(f) ==
    {<<ym[1], ym[2],
       Cardinality({i \in MonthYearRows(f) :
            reports[i].year = ym[1] /\ reports[i].months = ym[2]})>> :
       ym \in {<<reports[i].year, reports[i].months>> : i \in MonthYearRows(f)}}

-----------------------------------------------------------------------------
(* /records: the response. *)

\* SQLite's BINARY collation on the strings of the model's project keys, NULL
\* first.
CollationOrder ==
    <<NullStr, "Andaman & Nicobar Islands", "D1", "D2",
      "Dadra and Nagar Haveli and Daman and Diu", "Equity Initiative",
      "Faculty Improvement", "Goa",
      "Kerala", "PM-UShA", "RUSA 1", "RUSA 2", "X", "Y">>

Collate(s) == CHOOSE n \in DOMAIN CollationOrder : CollationOrder[n] = s

RECURSIVE KeyBefore(_, _)
KeyBefore(a, b) ==
    /\ a # <<>>
    /\ \/ Collate(Head(a)) < Collate(Head(b))
       \/ Head(a) = Head(b) /\ KeyBefore(Tail(a), Tail(b))

\* .order_by(*project_key).all() over a set of rows.
RECURSIVE OrderByProjectKey(_)
OrderByProjectKey(ids) ==
    IF ids = {} THEN <<>>
    ELSE LET first == CHOOSE i \in ids : \A j \in ids :
                          ~KeyBefore(project_key(reports[j]), project_key(reports[i]))
         IN  <<first>> \o OrderByProjectKey(ids \ {first})

\* Row a comes strictly before row b under
\* order_by(desc(year), desc(month_order), State.name, RusaPhase.name).
ListedBefore(a, b) ==
    \/ MoreRecent(a, b)
    \/ /\ ~MoreRecent(b, a)
       /\ \/ Collate(StateName(a)) < Collate(StateName(b))
          \/ /\ StateName(a) = StateName(b)
             /\ Collate(RusaPhaseName(a)) < Collate(RusaPhaseName(b))

\* All orders of a finite set.
Perms(S) ==
    {p \in [1..Cardinality(S) -> S] :
        \A m, n \in 1..Cardinality(S) : m # n => p[m] # p[n]}

\* The place of x in the order that follows the ranking and, among the
\* elements of one rank, the sequence tiebreak.
PlaceOf(rank, tiebreak, x) ==
    LET at(y) == IF \E n \in DOMAIN tiebreak : tiebreak[n] = y
                 THEN CHOOSE n \in DOMAIN tiebreak : tiebreak[n] = y
                 ELSE 0
    IN  rank[x] + 1
        + Cardinality({n \in DOMAIN tiebreak :
                          rank[tiebreak[n]] = rank[x] /\ n < at(x)})

\* The sequences an ORDER BY may return: ranking[x] is the number of
\* elements that come strictly before x, so the elements of one rank are
\* those the order does not tell apart, and the database returns them in any
\* order.
OrdersFrom(ranking) ==
    UNION {{[k \in 1..Cardinality(DOMAIN rank) |->
                CHOOSE x \in DOMAIN rank : PlaceOf(rank, tiebreak, x) = k] :
              tiebreak \in Perms({x \in DOMAIN rank :
                                    \E y \in DOMAIN rank \ {x} : rank[y] = rank[x]})} :
           rank \in {ranking @@ [x \in {} |-> 0]}}

\* sorted_query: the filtered rows in the listing's order.
SortedQuery(f) ==
    UNION {OrdersFrom([i \in ids |->
                          Cardinality({j \in ids :
                              ListedBefore(reports[j], reports[i])})]) :
           ids \in {Filtered(f)}}

\* month_year_summary as the list the query returns: the groups under
\* order_by(desc(year), desc(month_order)).
MonthYearSummaryLists(f) ==
    LET period(t) == [year |-> t[1], months |-> t[2]]
    IN  UNION {OrdersFrom([t \in groups |->
                              Cardinality({u \in groups :
                                  MoreRecent(period(u), period(t))})]) :
               groups \in {MonthYearSummary(f)}}

-----------------------------------------------------------------------------
(* /records: the page. Python's integers are unbounded, so a page number is  *)
(* kept as a sign and its decimal digits, most significant first.            *)

per_page == 20

\* The page parameter's raw values: what int() makes of a string that is an
\* integer literal. Any other string raises ValueError.
IntLiterals ==
    [v \in {"0", "2", "3", "-1", "461168601842738791", "461168601842738792"} |->
        CASE v = "0" -> [neg |-> FALSE, digits |-> <<0>>]
          [] v = "2" -> [neg |-> FALSE, digits |-> <<2>>]
          [] v = "3" -> [neg |-> FALSE, digits |-> <<3>>]
          [] v = "-1" -> [neg |-> TRUE, digits |-> <<1>>]
          [] v = "461168601842738791" ->
                [neg |-> FALSE,
                 digits |-> <<4, 6, 1, 1, 6, 8, 6, 0, 1, 8, 4, 2, 7, 3, 8, 7, 9, 1>>]
          [] v = "461168601842738792" ->
                [neg |-> FALSE,
                 digits |-> <<4, 6, 1, 1, 6, 8, 6, 0, 1, 8, 4, 2, 7, 3, 8, 7, 9, 2>>]]

\* The query string carries no page parameter.
NoPage == NullStr

\* request.args.get('page', 1, type=int): the default for a missing value
\* and for one int() raises on.
PageArg(raw) ==
    IF raw \in DOMAIN IntLiterals THEN IntLiterals[raw]
    ELSE [neg |-> FALSE, digits |-> <<1>>]

\* paginate(error_out=False): a page below 1 becomes page 1.
PageOf(raw) ==
    IF PageArg(raw).neg \/ PageArg(raw).digits = <<0>>
    THEN <<1>>
    ELSE PageArg(raw).digits

RECURSIVE StripZeros(_)
StripZeros(d) == IF Len(d) > 1 /\ d[1] = 0 THEN StripZeros(Tail(d)) ELSE d

\* d - 1, for d >= 1.
RECURSIVE Borrow(_)
Borrow(d) ==
    IF d[Len(d)] > 0 THEN [d EXCEPT ![Len(d)] = @ - 1]
    ELSE Append(Borrow(SubSeq(d, 1, Len(d) - 1)), 9)

RECURSIVE MulCarry(_, _, _)
MulCarry(d, k, carry) ==
    IF d = <<>>
    THEN IF carry = 0 THEN <<>>
         ELSE Append(MulCarry(<<>>, k, carry \div 10), carry % 10)
    ELSE Append(MulCarry(SubSeq(d, 1, Len(d) - 1), k, (d[Len(d)] * k + carry) \div 10),
                (d[Len(d)] * k + carry) % 10)

\* a < b, for digit sequences without leading zeros.
DecLess(a, b) ==
    \/ Len(a) < Len(b)
    \/ /\ Len(a) = Len(b)
       /\ \E k \in DOMAIN a : a[k] < b[k] /\ \A m \in 1..(k - 1) : a[m] = b[m]

RECURSIVE ToNat(_)
ToNat(d) == IF d = <<>> THEN 0 ELSE ToNat(SubSeq(d, 1, Len(d) - 1)) * 10 + d[Len(d)]

\* (page - 1) * per_page, the OFFSET of the page's query.
Offset(page) == StripZeros(MulCarry(StripZeros(Borrow(page)), per_page, 0))

\* The largest value SQLite's driver binds as an INTEGER: 2^63 - 1.
MaxSqliteInteger == <<9, 2, 2, 3, 3, 7, 2, 0, 3, 6, 8, 5, 4, 7, 7, 5, 8, 0, 7>>

\* Binding the OFFSET raises OverflowError.
OffsetOverflows(raw) == DecLess(MaxSqliteInteger, Offset(PageOf(raw)))

\* LIMIT per_page OFFSET offset over the sorted rows.
PageItems(listing, raw) ==
    LET offset == Offset(PageOf(raw))
    IN  IF DecLess(<<9, 9, 9, 9>>, offset) \/ ToNat(offset) >= Len(listing)
        THEN <<>>
        ELSE SubSeq(listing, ToNat(offset) + 1,
                    IF ToNat(offset) + per_page < Len(listing)
                    THEN ToNat(offset) + per_page ELSE Len(listing))

NameOrNA(name) == IF name = NullStr THEN "N/A" ELSE name

\* One entry of missing_projects_data.
MissingProject(r) ==
    [state |-> NameOrNA(StateName(r)),
     rusa_phase |-> NameOrNA(RusaPhaseName(r)),
     component_name |-> NameOrNA(ComponentName(r)),
     institution_name |-> r.institution_name,
     district |-> r.district,
     last_reported |-> [months |-> r.months, year |-> r.year],
     is_pm_launched |-> (PM(r) = "Yes")]

\* The four grouped summaries of summary_data.
GroupedSummaries(f, month_year) ==
    [state_summary_interactive |-> StateSummaryInteractive(f),
     state_phase_summary |-> StatePhaseSummary(f),
     state_phase_component_summary |-> StatePhaseComponentSummary(f),
     month_year_summary |-> month_year]

\* The rows of the PM count, were they taken from ongoing_latest_reports_q.
PmCountScopeOngoing(rn1, lp) ==
    {i \in rn1 : reports[i].project_status = "Ongoing"}

\* The rows pm_missing_count filters on the PM flag: missing_reports_q.
PmCountScope(rn1, lp) == MissingReports(rn1, lp)

\* The four keys the detector adds, for the latest period lp and the rank-1
\* rows rn1.
MissingSummary(lp, rn1) ==
    LET missing == OrderByProjectKey(MissingReports(rn1, lp))
    IN  [missing_ongoing_projects |->
             [n \in DOMAIN missing |-> MissingProject(reports[missing[n]])],
         missing_total_count |-> Cardinality(MissingReports(rn1, lp)),
         missing_pm_count |->
             Cardinality({i \in PmCountScope(rn1, lp) : PM(reports[i]) = "Yes"}),
         latest_month_for_missing |-> [months |-> lp[2], year |-> lp[1]]]

\* summary_data when no row passes the filters: the empty dict.
EmptySummary == [k \in {} |-> 0]

\* What the template is given: pagination.items and pagination.total, the
\* filters and summary_data. `rows` is the set of rows `query` holds, `first`
\* the database's choice of rank-1 rows and `missing` the rows of
\* missing_reports_q, kept to state the claims on.
Rendered(f, page, listing, summary, rn1, missing) ==
    [kind |-> "ok", filters |-> f, page |-> page, rows |-> Filtered(f),
     items |-> PageItems(listing, page), total |-> Len(listing),
     summary_data |-> summary, first |-> rn1, missing |-> missing]

ServerError(f, page) == [kind |-> "error", filters |-> f, page |-> page]

NoResponse == [kind |-> "none"]

\* filtered_records_exist, were it asked of the whole table.
TableHasRows(f) == DOMAIN reports # {}

\* query.exists(): some row passes the filters.
filtered_records_exist(f) == Filtered(f) # {}

\* GET /records with the filter lists f and the raw page parameter.
Records(f, page) ==
    /\ IF YearFilterRaises(f) \/ OffsetOverflows(page)
       THEN resp' = ServerError(f, page)
       ELSE IF ~filtered_records_exist(f)
       THEN \E listing \in SortedQuery(f) :
               resp' = Rendered(f, page, listing, EmptySummary, {}, {})
       ELSE \E listing \in SortedQuery(f), month_year \in MonthYearSummaryLists(f),
               lp \in LatestPeriods(f), rn1 \in RankOneChoices(f) :
               resp' = Rendered(f, page, listing,
                                GroupedSummaries(f, month_year) @@ MissingSummary(lp, rn1),
                                rn1, MissingReports(rn1, lp))
    /\ UNCHANGED <<reports, states, rusa_phases, components, nav, migration, load, populate>>

-----------------------------------------------------------------------------
(* The states every specification starts the idle parts in. *)

NavIdle == [pc |-> "idle", qs |-> <<>>, base |-> <<>>, added |-> <<>>]
MigrationIdle == [pc |-> "idle", runs |-> <<>>]
LoadIdle ==
    [pc |-> "idle", runs |-> 0, before |-> <<>>, journal |-> <<>>,
     sheet |-> <<>>, discarded |-> 0]
PopulateIdle ==
    [pc |-> "idle", sheet |-> <<>>, done |-> 0, before |-> <<>>,
     update_count |-> 0, not_found_count |-> 0]

\* All tables of at most n rows drawn from `rows`.
Tables(rows, n) == UNION {[1..k -> rows] : k \in 0..n}

With(key, sel) == [NoFilters EXCEPT ![key] = sel]

-----------------------------------------------------------------------------
(* Specification Spec: the missing-report detector over tables of two        *)
(* projects' reports in six periods.                                         *)

Periods ==
    {<<2025, "October">>, <<2025, "June">>, <<2024, "October">>,
     <<NullInt, "October">>, <<2025, NullStr>>, <<2025, "Oct">>}

MissingRows ==
    {MprReport("Kerala", "RUSA 1", "Equity Initiative", inst, "D1", status,
               p[1], p[2], IF inst = "X" THEN "Yes" ELSE "No") :
        inst \in {"X", "Y"}, status \in {"Ongoing", "Completed"}, p \in Periods}

MissingRequests ==
    {NoFilters, With("year", {"2024"}), With("project_status", {"Ongoing"}),
     With("institution_name", {"X"})}

Init ==
    /\ reports \in Tables(MissingRows, MaxReports)
    /\ states = SeededTable(STATES)
    /\ rusa_phases = SeededTable(RUSA_PHASES)
    /\ components = SeededTable(COMPONENTS)
    /\ resp = NoResponse
    /\ nav = NavIdle
    /\ migration = MigrationIdle
    /\ load = LoadIdle
    /\ populate = PopulateIdle

\* One request per behaviour: the handler reads nothing of an earlier
\* response, so a second request reaches no response the first could not.
Next == resp = NoResponse /\ \E f \in MissingRequests : Records(f, NoPage)

Spec == Init /\ [][Next]_vars

-----------------------------------------------------------------------------
(* What the claims about the detector speak of. *)

\* A response that carries the detector's output.
HasMissingSummary ==
    /\ resp.kind = "ok"
    /\ "missing_ongoing_projects" \in DOMAIN resp.summary_data

\* The project keys of the missing list, as displayed.
MissingListKeys ==
    {<<e.state, e.rusa_phase, e.component_name, e.institution_name, e.district>> :
        e \in {resp.summary_data.missing_ongoing_projects[n] :
                  n \in DOMAIN resp.summary_data.missing_ongoing_projects}}

\* The key row r is displayed under.
DisplayedKey(r) ==
    <<NameOrNA(StateName(r)), NameOrNA(RusaPhaseName(r)),
      NameOrNA(ComponentName(r)), r.institution_name, r.district>>

InMissingList(r) == DisplayedKey(r) \in MissingListKeys

\* The latest period the response was computed with, as (year, months).
ResponseLatest ==
    <<resp.summary_data.latest_month_for_missing.year,
      resp.summary_data.latest_month_for_missing.months>>

PeriodOf(r) == <<r.year, r.months>>

\* Row i is its project's one most recent row among the rows `ids`.
SoleMostRecent(ids, i) ==
    /\ i \in ids
    /\ \A j \in Partition(ids, i) \ {i} : MoreRecent(reports[i], reports[j])

\* p is the period of a row of `ids` with the maximum year and, within that
\* year, the maximum month rank (a NULL year counting below every year).
IsLatestPeriodOf(ids, p) ==
    /\ \E i \in ids : PeriodOf(reports[i]) = p
    /\ \A j \in ids : YearKey(reports[j].year) <= YearKey(p[1])
    /\ \A j \in ids : reports[j].year = p[1] =>
                         month_order(reports[j].months) <= month_order(p[2])

\* C1 (as claimed), no filters: a project is in the missing list if and only
\* if its rank-1 row is Ongoing and that row's (year, months) differs from the
\* latest (year, months), rows with a NULL year or months included.
C1_MissingIffRankOneOngoingAndStale ==
    (HasMissingSummary /\ resp.filters = NoFilters) =>
        \A i \in resp.first :
            InMissingList(reports[i]) <=>
                /\ reports[i].project_status = "Ongoing"
                /\ PeriodOf(reports[i]) # ResponseLatest

\* C2 (as claimed), any filters: a project whose most recent row is Ongoing
\* and of the global latest period is never in the missing list.
C2_ReportedInLatestNeverMissing ==
    HasMissingSummary =>
        \A i \in DOMAIN reports :
            (/\ SoleMostRecent(DOMAIN reports, i)
             /\ reports[i].project_status = "Ongoing"
             /\ IsLatestPeriodOf(DOMAIN reports, PeriodOf(reports[i])))
            => ~InMissingList(reports[i])

\* C3 (as claimed), any filters: a project whose most recent row over the whole
\* table is Completed is never in the missing list, and neither is a project
\* with no Ongoing row.
C3_CompletedNeverMissing ==
    HasMissingSummary =>
        \A i \in DOMAIN reports :
            /\ (SoleMostRecent(DOMAIN reports, i)
                    /\ reports[i].project_status = "Completed")
                => ~InMissingList(reports[i])
            /\ (\A j \in Partition(DOMAIN reports, i) :
                    reports[j].project_status # "Ongoing")
                => ~InMissingList(reports[i])

\* C4 (as claimed): the latest period is the maximum over the rows that
\* satisfy the request's filters.
C4_LatestOverFilteredRows ==
    HasMissingSummary => IsLatestPeriodOf(Filtered(resp.filters), ResponseLatest)

\* C4 (amended): the latest period is the (year, months) of a row with the
\* maximum year and, within that year, the maximum month rank, taken over all
\* rows of the fact table, whatever the request's filters.
C4_LatestOverWholeTable ==
    HasMissingSummary => IsLatestPeriodOf(DOMAIN reports, ResponseLatest)

\* C4's case: a filtered request whose own rows end before the table's latest
\* period.
C4_Witness ==
    /\ HasMissingSummary
    /\ resp.filters # NoFilters
    /\ \A i \in Filtered(resp.filters) : PeriodOf(reports[i]) # ResponseLatest
    /\ \E i \in DOMAIN reports \ Filtered(resp.filters) :
          \A j \in Filtered(resp.filters) : MoreRecent(reports[i], reports[j])

-----------------------------------------------------------------------------
(* Specification SpecSummary: the grouped summaries over tables of rows of   *)
(* two states and two phases, with and without their three foreign keys.     *)

\* Raw texts that match no reference name: the foreign key stays NULL.
UnmatchedState == "Atlantis"
UnmatchedPhase == "Phase X"
UnmatchedComponent == "Canteen"

SummaryRows ==
    {MprReport(st, ph, "Equity Initiative", "X", "D1", sp[1], 2025, "October", sp[2]) :
        st \in {"Goa", "Kerala"}, ph \in {"RUSA 1", "RUSA 2"},
        sp \in {"Ongoing", "Completed"} \X {"Yes", "No"}}
    \cup
    {MprReport(k[1], k[2], k[3], "X", "D1", "Ongoing", 2025, "October", "Yes") :
        k \in {<<UnmatchedState, "RUSA 1", "Equity Initiative">>,
               <<"Kerala", UnmatchedPhase, "Equity Initiative">>,
               <<"Kerala", "RUSA 1", UnmatchedComponent>>,
               <<UnmatchedState, UnmatchedPhase, UnmatchedComponent>>}}

SummaryRequests ==
    {NoFilters, With("state", {"Kerala"}), With("project_status", {"Ongoing"})}

InitSummary ==
    /\ reports \in Tables(SummaryRows, MaxSummaryReports)
    /\ states = SeededTable(STATES)
    /\ rusa_phases = SeededTable(RUSA_PHASES)
    /\ components = SeededTable(COMPONENTS)
    /\ resp = NoResponse
    /\ nav = NavIdle
    /\ migration = MigrationIdle
    /\ load = LoadIdle
    /\ populate = PopulateIdle

NextSummary == resp = NoResponse /\ \E f \in SummaryRequests : Records(f, NoPage)

SpecSummary == InitSummary /\ [][NextSummary]_vars

HasSummary ==
    /\ resp.kind = "ok"
    /\ "state_summary_interactive" \in DOMAIN resp.summary_data

\* The listed rows whose state, phase and component all resolve to a name.
FullyKeyedRows ==
    {i \in resp.rows : /\ StateName(reports[i]) # NullStr
                       /\ RusaPhaseName(reports[i]) # NullStr
                       /\ ComponentName(reports[i]) # NullStr}

\* C5 (as claimed): each of the four grouped summaries counts exactly the
\* listed rows whose state, phase and component are all non-null; the listing
\* itself keeps the rows with a null key.
C5_GroupedSummariesExcludeNullKeys ==
    HasSummary =>
        /\ \A t \in resp.summary_data.state_phase_summary :
              t[3] = Cardinality({i \in FullyKeyedRows :
                        /\ StateName(reports[i]) = t[1]
                        /\ RusaPhaseName(reports[i]) = t[2]})
        /\ \A t \in resp.summary_data.state_phase_component_summary :
              t[4] = Cardinality({i \in FullyKeyedRows :
                        /\ StateName(reports[i]) = t[1]
                        /\ RusaPhaseName(reports[i]) = t[2]
                        /\ ComponentName(reports[i]) = t[3]})
        /\ \A s \in DOMAIN resp.summary_data.state_summary_interactive :
              resp.summary_data.state_summary_interactive[s][1].count =
                  Cardinality({i \in FullyKeyedRows : StateName(reports[i]) = s})
        /\ \A n \in DOMAIN resp.summary_data.month_year_summary :
              LET t == resp.summary_data.month_year_summary[n] IN
              t[3] = Cardinality({i \in FullyKeyedRows :
                        reports[i].year = t[1] /\ reports[i].months = t[2]})

RECURSIVE SumOf(_)
SumOf(fn) ==
    IF DOMAIN fn = {} THEN 0
    ELSE LET p == CHOOSE q \in DOMAIN fn : TRUE
         IN  fn[p] + SumOf([q \in DOMAIN fn \ {p} |-> fn[q]])

\* C6: in the state -> category -> {count, phases} summary, the per-phase
\* counts of every state and category add up to that state/category's count.
C6_PhaseCountsSumToCount ==
    HasSummary =>
        \A s \in DOMAIN resp.summary_data.state_summary_interactive :
            \A c \in DOMAIN Categories :
                SumOf(resp.summary_data.state_summary_interactive[s][c].phases)
                    = resp.summary_data.state_summary_interactive[s][c].count

\* C6's case: a state whose total of two rows spreads over two phases, with
\* a category that counted only one of them.
C6_Witness ==
    /\ HasSummary
    /\ \E s \in DOMAIN resp.summary_data.state_summary_interactive :
          LET e == resp.summary_data.state_summary_interactive[s]
          IN  /\ e[1].count = 2
              /\ Cardinality(DOMAIN e[1].phases) = 2
              /\ \E c \in DOMAIN Categories :
                    e[c].count = 1 /\ Cardinality(DOMAIN e[c].phases) = 1

-----------------------------------------------------------------------------
(* Specification SpecFilter: the listing over tables of rows that differ     *)
(* from one base row in one filtered column, under requests that select on   *)
(* one column or on two.                                                     *)

BaseRow ==
    MprReport("Kerala", "RUSA 1", "Equity Initiative", "X", "D1", "Ongoing",
              2024, "June", "Yes")

FilterRows ==
    {BaseRow}
    \cup {MprReport(st, "RUSA 1", "Equity Initiative", "X", "D1", "Ongoing",
                    2024, "June", "Yes") : st \in {"Goa", UnmatchedState}}
    \cup {MprReport("Kerala", ph, "Equity Initiative", "X", "D1", "Ongoing",
                    2024, "June", "Yes") : ph \in {"RUSA 2", UnmatchedPhase}}
    \cup {MprReport("Kerala", "RUSA 1", c, "X", "D1", "Ongoing",
                    2024, "June", "Yes") : c \in {"Faculty Improvement", UnmatchedComponent}}
    \cup {MprReport("Kerala", "RUSA 1", "Equity Initiative", inst, "D1", "Ongoing",
                    2024, "June", "Yes") : inst \in {"Y", NullStr}}
    \cup {MprReport("Kerala", "RUSA 1", "Equity Initiative", "X", d, "Ongoing",
                    2024, "June", "Yes") : d \in {"D2"}}
    \cup {MprReport("Kerala", "RUSA 1", "Equity Initiative", "X", "D1", status,
                    2024, "June", "Yes") : status \in {"Completed"}}
    \cup {MprReport("Kerala", "RUSA 1", "Equity Initiative", "X", "D1", "Ongoing",
                    y, "June", "Yes") : y \in {2025, NullInt}}
    \cup {MprReport("Kerala", "RUSA 1", "Equity Initiative", "X", "D1", "Ongoing",
                    2024, mon, "Yes") : mon \in {"October", NullStr}}

\* For every filter key, the base row's value and another row's.
FilterValues ==
    [state |-> <<"Kerala", "Goa">>,
     rusa_phase |-> <<"RUSA 1", "RUSA 2">>,
     component_name |-> <<"Equity Initiative", "Faculty Improvement">>,
     institution_name |-> <<"X", "Y">>,
     district |-> <<"D1", "D2">>,
     project_status |-> <<"Ongoing", "Completed">>,
     year |-> <<"2024", "02025">>,
     months |-> <<"June", "October">>]

FilterRequests ==
    {NoFilters}
    \cup UNION {{With(k, sel) :
                    sel \in {{FilterValues[k][1]}, {FilterValues[k][2]},
                             {FilterValues[k][1], FilterValues[k][2]}}} :
                k \in FilterKeys}
    \cup {[With(k, {FilterValues[k][1]}) EXCEPT !["year"] = {y}] :
             k \in FilterKeys \ {"year"}, y \in {"2024", " 2024"}}
    \cup {With("year", {"2024", ""}), With("state", {""})}

InitFilter ==
    /\ reports \in Tables(FilterRows, MaxFilterReports)
    /\ states = SeededTable(STATES)
    /\ rusa_phases = SeededTable(RUSA_PHASES)
    /\ components = SeededTable(COMPONENTS)
    /\ resp = NoResponse
    /\ nav = NavIdle
    /\ migration = MigrationIdle
    /\ load = LoadIdle
    /\ populate = PopulateIdle

NextFilter == resp = NoResponse /\ \E f \in FilterRequests : Records(f, NoPage)

SpecFilter == InitFilter /\ [][NextFilter]_vars

\* Row r matches the selected value v of filter key k: by the reference-table
\* name for state, phase and component, by the number for year.
MatchesValue(r, k, v) ==
    CASE k = "state" -> StateName(r) # NullStr /\ StateName(r) = v
      [] k = "rusa_phase" -> RusaPhaseName(r) # NullStr /\ RusaPhaseName(r) = v
      [] k = "component_name" -> ComponentName(r) # NullStr /\ ComponentName(r) = v
      [] k = "institution_name" -> r.institution_name # NullStr /\ r.institution_name = v
      [] k = "district" -> r.district # NullStr /\ r.district = v
      [] k = "project_status" -> r.project_status # NullStr /\ r.project_status = v
      [] k = "year" -> r.year # NullInt /\ IsIntLiteral(v) /\ r.year = IntOf(v)
      [] k = "months" -> r.months # NullStr /\ r.months = v

\* C7: the listed rows are exactly the fact rows that match, for every filter
\* key with a selection, one of the selected values; with no selection at all
\* every fact row is listed, null foreign keys or not.
C7_ListingIsOrWithinAndAcross ==
    resp.kind = "ok" =>
        /\ resp.rows =
              {i \in DOMAIN reports :
                  \A k \in FilterKeys :
                      resp.filters[k] # {} =>
                          \E v \in resp.filters[k] : MatchesValue(reports[i], k, v)}
        /\ resp.filters = NoFilters => resp.rows = DOMAIN reports

\* C7's case: a request selecting on two keys lists one row of a table and
\* leaves out another, which matches only one of the two.
C7_Witness ==
    /\ resp.kind = "ok"
    /\ Cardinality({k \in FilterKeys : resp.filters[k] # {}}) = 2
    /\ resp.rows # {}
    /\ \E i \in DOMAIN reports \ resp.rows :
          \E k \in FilterKeys :
              /\ resp.filters[k] # {}
              /\ \E v \in resp.filters[k] : MatchesValue(reports[i], k, v)

-----------------------------------------------------------------------------
(* The query string and remove_filter. A query string is the sequence of its *)
(* decoded (key, value) pairs, in the order they stand in the URL.           *)

\* urllib.parse.parse_qs, whose keep_blank_values defaults to False: a pair
\* with an empty value is dropped. The result is a dict: the keys in the order
\* they first appear, each with the list of its values.
NonBlank(qs) == SelectSeq(qs, LAMBDA p : p[2] # "")

RECURSIVE KeysInOrder(_)
KeysInOrder(qs) ==
    IF qs = <<>> THEN <<>>
    ELSE <<Head(qs)[1]>>
         \o KeysInOrder(SelectSeq(Tail(qs), LAMBDA p : p[1] # Head(qs)[1]))

RECURSIVE ValuesOf(_, _)
ValuesOf(qs, key) ==
    IF qs = <<>> THEN <<>>
    ELSE (IF Head(qs)[1] = key THEN <<Head(qs)[2]>> ELSE <<>>)
         \o ValuesOf(Tail(qs), key)

parse_qs(qs) ==
    [keys |-> KeysInOrder(NonBlank(qs)),
     lists |-> [k \in {p[1] : p \in {NonBlank(qs)[n] : n \in DOMAIN NonBlank(qs)}} |->
                   ValuesOf(NonBlank(qs), k)]]

\* urllib.parse.urlencode(params, doseq=True): one pair per value, key by key.
RECURSIVE urlencode(_)
urlencode(params) ==
    IF params.keys = <<>> THEN <<>>
    ELSE [n \in DOMAIN params.lists[Head(params.keys)] |->
             <<Head(params.keys), params.lists[Head(params.keys)][n]>>]
         \o urlencode([params EXCEPT !.keys = Tail(params.keys)])

\* params[filter_key] = [v for v in params[filter_key] if v != value_to_remove],
\* and del params[filter_key] when nothing is left.
WithoutValue(params, filter_key, value_to_remove) ==
    IF filter_key \notin DOMAIN params.lists
    THEN params
    ELSE LET kept == SelectSeq(params.lists[filter_key],
                               LAMBDA v : v # value_to_remove)
         IN  IF kept = <<>>
             THEN [keys |-> SelectSeq(params.keys, LAMBDA k : k # filter_key),
                   lists |-> [k \in DOMAIN params.lists \ {filter_key} |->
                                 params.lists[k]]]
             ELSE [params EXCEPT !.lists[filter_key] = kept]

remove_filter(query_bytes, filter_key, value_to_remove) ==
    urlencode(WithoutValue(parse_qs(query_bytes), filter_key, value_to_remove))

\* request.args.getlist(key): werkzeug keeps the pairs with an empty value.
getlist(qs, key) == ValuesOf(qs, key)

\* The filters dict /records builds from a query string, each list as the set
\* its IN (...) clause amounts to.
FiltersOf(qs) ==
    [k \in FilterKeys |-> {getlist(qs, k)[n] : n \in DOMAIN getlist(qs, k)}]

-----------------------------------------------------------------------------
(* Specification SpecNav: a browser adds parameters to the query string of   *)
(* /records and follows the page's remove-filter links.                      *)

\* The parameters a request may carry; a form field left empty is sent with an
\* empty value.
QueryPairs ==
    {<<"state", "Kerala">>, <<"state", "Goa">>, <<"state", "">>,
     <<"year", "2024">>, <<"year", "">>, <<"page", "2">>}

\* The browser requests /records with one more parameter at the end of the
\* query string. nav.base keeps the query string it was added to.
AddParameter(k, v) ==
    /\ Len(nav.qs) < MaxQueryLen
    /\ nav' = [pc |-> "added", qs |-> Append(nav.qs, <<k, v>>),
               base |-> nav.qs, added |-> <<k, v>>]
    /\ UNCHANGED <<reports, states, rusa_phases, components, resp, migration, load, populate>>

\* The browser follows the link request.query_string | remove_filter(k, v) of
\* an active filter value. Removing the parameter just added ends a round trip.
FollowRemoveLink(k, v) ==
    /\ k \in FilterKeys
    /\ v \in FiltersOf(nav.qs)[k]
    /\ nav' = [nav EXCEPT
                  !.pc = IF nav.pc = "added" /\ nav.added = <<k, v>>
                         THEN "removed" ELSE "browsing",
                  !.qs = remove_filter(nav.qs, k, v)]
    /\ UNCHANGED <<reports, states, rusa_phases, components, resp, migration, load, populate>>

InitNav ==
    /\ reports = <<>>
    /\ states = SeededTable(STATES)
    /\ rusa_phases = SeededTable(RUSA_PHASES)
    /\ components = SeededTable(COMPONENTS)
    /\ resp = NoResponse
    /\ nav = NavIdle
    /\ migration = MigrationIdle
    /\ load = LoadIdle
    /\ populate = PopulateIdle

NextNav ==
    \/ \E p \in QueryPairs : AddParameter(p[1], p[2])
    \/ \E p \in QueryPairs : FollowRemoveLink(p[1], p[2])

SpecNav == InitNav /\ [][NextNav]_vars

\* C8 (as claimed): for every query string Q, filter key k and value v not
\* already selected for k in Q, remove_filter(Q + [k=v], k, v) selects the same
\* filter sets and the same page as Q.
C8_RemoveFilterRoundTrip ==
    (/\ nav.pc = "removed"
     /\ nav.added[2] \notin FiltersOf(nav.base)[nav.added[1]])
    => /\ FiltersOf(nav.qs) = FiltersOf(nav.base)
       /\ getlist(nav.qs, "page") = getlist(nav.base, "page")

-----------------------------------------------------------------------------
(* migrate-data: name matching. A string is spelled as the sequence of its   *)
(* pieces (a capital letter, a run of small letters, a blank, an ampersand,  *)
(* the word "and", a digit, a hyphen), on which lower, strip and replace act *)
(* as they do on the characters.                                             *)

Spell(name) ==
    CASE name = "" -> <<>>
      [] name = " " -> <<" ">>
      [] name = "Kerala" -> <<"K", "erala">>
      [] name = " kerala " -> <<" ", "k", "erala", " ">>
      [] name = "Goa" -> <<"G", "oa">>
      [] name = "Atlantis" -> <<"A", "tlantis">>
      [] name = "Andaman & Nicobar Islands" ->
            <<"A", "ndaman", " ", "&", " ", "N", "icobar", " ", "I", "slands">>
      [] name = "Andaman and Nicobar Islands" ->
            <<"A", "ndaman", " ", "and", " ", "N", "icobar", " ", "I", "slands">>
      [] name = "Dadra and Nagar Haveli and Daman and Diu" ->
            <<"D", "adra", " ", "and", " ", "N", "agar", " ", "H", "aveli", " ",
              "and", " ", "D", "aman", " ", "and", " ", "D", "iu">>
      [] name = "Dadra and Nagar Haveli" ->
            <<"D", "adra", " ", "and", " ", "N", "agar", " ", "H", "aveli">>
      [] name = "dadra and nagar haveli" ->
            <<"d", "adra", " ", "and", " ", "n", "agar", " ", "h", "aveli">>
      [] name = "the dadra and nagar haveli and daman and diu" ->
            <<"the", " ", "d", "adra", " ", "and", " ", "n", "agar", " ", "h",
              "aveli", " ", "and", " ", "d", "aman", " ", "and", " ", "d", "iu">>
      [] name = "RUSA 1" -> <<"R", "U", "S", "A", " ", "1">>
      [] name = "RUSA 2" -> <<"R", "U", "S", "A", " ", "2">>
      [] name = "rusa 2" -> <<"r", "u", "s", "a", " ", "2">>
      [] name = "PM-UShA" -> <<"P", "M", "-", "U", "S", "h", "A">>
      [] name = "Phase X" -> <<"P", "hase", " ", "X">>

\* str.lower on one piece.
LowerPiece(c) ==
    CASE c = "A" -> "a" [] c = "D" -> "d" [] c = "G" -> "g" [] c = "H" -> "h"
      [] c = "I" -> "i" [] c = "K" -> "k" [] c = "M" -> "m" [] c = "N" -> "n"
      [] c = "P" -> "p" [] c = "R" -> "r" [] c = "S" -> "s" [] c = "U" -> "u"
      [] c = "X" -> "x" [] OTHER -> c

RECURSIVE Strip(_)
Strip(w) ==
    IF w # <<>> /\ Head(w) = " " THEN Strip(Tail(w))
    ELSE IF w # <<>> /\ w[Len(w)] = " " THEN Strip(SubSeq(w, 1, Len(w) - 1))
    ELSE w

\* What normalize_name returns for a value that is no str.
NormalizedNone == <<NullStr>>

\* name.lower().strip().replace('&', 'and'), or None for None.
normalize_name(name) ==
    IF name = NullStr THEN NormalizedNone
    ELSE LET lowered == [n \in DOMAIN Spell(name) |-> LowerPiece(Spell(name)[n])]
         IN  [n \in DOMAIN Strip(lowered) |->
                 IF Strip(lowered)[n] = "&" THEN "and" ELSE Strip(lowered)[n]]

\* Python's truth of a normalized name: None and '' are false.
Truthy(normalized) == normalized # NormalizedNone /\ normalized # <<>>

\* {normalize_name(t.name): t.id for t in table}; the seeded names normalize
\* to different keys, so no key is written twice.
NormalizedMap(table) ==
    [key \in {normalize_name(t.name) : t \in table} |->
        (CHOOSE t \in table : normalize_name(t.name) = key).id]

\* dict.get: None for a key the dict does not hold.
Get(map, key) == IF key \in DOMAIN map THEN map[key] ELSE NullInt

\* states_map with the two manual mappings added.
states_map ==
    LET target == Get(NormalizedMap(states),
                      normalize_name("Dadra and Nagar Haveli and Daman and Diu"))
    IN  (Spell("dadra and nagar haveli") :> target)
        @@ (Spell("the dadra and nagar haveli and daman and diu") :> target)
        @@ NormalizedMap(states)

phases_map == NormalizedMap(rusa_phases)

\* The foreign key one report leaves the matching loop with.
MatchedId(map, text, old) ==
    IF Truthy(normalize_name(text)) /\ normalize_name(text) \in DOMAIN map
    THEN map[normalize_name(text)]
    ELSE old

\* Unmatched, were the else branch taken without the test of the raw text.
UnmatchedUntested(map, text) ==
    ~(Truthy(normalize_name(text)) /\ normalize_name(text) \in DOMAIN map)

\* Whether the loop adds the report's text to the unmatched set.
Unmatched(map, text) ==
    /\ ~(Truthy(normalize_name(text)) /\ normalize_name(text) \in DOMAIN map)
    /\ text # NullStr /\ text # ""

\* Seeding without the look-up for an existing row of the name.
RECURSIVE SeedUnchecked(_, _)
SeedUnchecked(table, names) ==
    IF names = <<>> THEN table
    ELSE SeedUnchecked(
            table \cup {[id |-> Cardinality(table) + 1, name |-> Head(names)]},
            Tail(names))

\* for name in names: add a row unless one of that name exists. The new row
\* takes the next autoincrement id.
RECURSIVE Seed(_, _)
Seed(table, names) ==
    IF names = <<>> THEN table
    ELSE Seed(IF \E t \in table : t.name = Head(names)
              THEN table
              ELSE table \cup {[id |-> Cardinality(table) + 1, name |-> Head(names)]},
              Tail(names))

-----------------------------------------------------------------------------
(* load-data: from a sheet row to a fact row. *)

\* The columns of mpr_report the model keeps (the primary key is the row's
\* index in reports).
Columns ==
    {"state", "rusa_phase", "state_id", "rusa_phase_id",
     "component_id", "institution_name", "district", "project_status", "year",
     "months", "whether_pm_digitally_launched_project_yes_no_",
     "benfits_from_the_projects_please_provide_details_",
     "number_of_students_benefitted", "number_of_faculties_benefitted",
     "number_of_research_works_being_undertaken",
     "physical_inspection_reports_pir_", "pir_uploaded_yes_no_not_selected_"}

IntColumns ==
    {"state_id", "rusa_phase_id", "component_id", "year",
     "number_of_students_benefitted", "number_of_faculties_benefitted",
     "number_of_research_works_being_undertaken"}

\* An empty text cell of the sheet, as pandas reads it.
NaN == "nan"

\* One column of MprReport(**filtered_data): NULL for a column the sheet
\* lacks and for an empty cell, the cell's value otherwise. The sheets of the
\* model hold a number in every year cell.
Cell(row, col) ==
    IF col \notin DOMAIN row \ {"s_no"}
    THEN IF col \in IntColumns THEN NullInt ELSE NullStr
    ELSE IF col \in IntColumns THEN row[col]
    ELSE IF row[col] = NaN THEN NullStr
    ELSE row[col]

\* The loop body of load-data: s_no is dropped and a column mpr_report does
\* not have (remarks) is filtered out.
record(row) == [col \in Columns |-> Cell(row, col)]

SheetRow(st, ph, inst, yr) ==
    [s_no |-> 1, state |-> st, rusa_phase |-> ph, institution_name |-> inst,
     year |-> yr, months |-> "October", remarks |-> "ok"]

-----------------------------------------------------------------------------
(* migrate-data: the command, with its three commits. *)

\* reports after the matching loop.
Matched ==
    [i \in DOMAIN reports |->
        [reports[i] EXCEPT
            !.state_id = MatchedId(states_map, reports[i].state, @),
            !.rusa_phase_id = MatchedId(phases_map, reports[i].rusa_phase, @)]]

unmatched_states ==
    {reports[i].state : i \in {j \in DOMAIN reports : Unmatched(states_map, reports[j].state)}}

unmatched_phases ==
    {reports[i].rusa_phase :
        i \in {j \in DOMAIN reports : Unmatched(phases_map, reports[j].rusa_phase)}}

\* Seeds the states and commits.
MigrateSeedStates ==
    /\ migration.pc = "idle"
    /\ Len(migration.runs) < MaxRuns
    /\ states' = Seed(states, STATES)
    /\ migration' = [migration EXCEPT !.pc = "seed_phases"]
    /\ UNCHANGED <<reports, rusa_phases, components, resp, nav, load, populate>>

\* Seeds the phases and commits.
MigrateSeedPhases ==
    /\ migration.pc = "seed_phases"
    /\ rusa_phases' = Seed(rusa_phases, RUSA_PHASES)
    /\ migration' = [migration EXCEPT !.pc = "match"]
    /\ UNCHANGED <<reports, states, components, resp, nav, load, populate>>

\* Builds the maps, matches every report, commits and reports the unmatched
\* values. What the run leaves and reports is appended to migration.runs.
MigrateReports ==
    /\ migration.pc = "match"
    /\ reports' = Matched
    /\ migration' =
          [pc |-> "idle",
           runs |-> Append(migration.runs,
                           [reports |-> Matched,
                            states |-> states,
                            rusa_phases |-> rusa_phases,
                            unmatched_states |-> unmatched_states,
                            unmatched_phases |-> unmatched_phases])]
    /\ UNCHANGED <<states, rusa_phases, components, resp, nav, load, populate>>

\* An exception after a commit: what the step has not committed is rolled
\* back and the command ends. (An exception before the first commit leaves
\* every variable as it was.)
MigrateRaises ==
    /\ migration.pc \in {"seed_phases", "match"}
    /\ migration' = [migration EXCEPT !.pc = "idle"]
    /\ UNCHANGED <<reports, states, rusa_phases, components, resp, nav, load, populate>>

(* Specification SpecMigrate: migrate-data run up to MaxRuns times on a      *)
(* freshly loaded table, the dimension tables empty at first.                *)

MigrateStateTexts ==
    {"Kerala", " kerala ", "Andaman and Nicobar Islands",
     "Dadra and Nagar Haveli", UnmatchedState, " ", NaN}

MigratePhaseTexts == {"rusa 2", "PM-UShA", UnmatchedPhase, NaN}

MigrateRows ==
    {record(SheetRow(st, "RUSA 1", "X", 2025)) : st \in MigrateStateTexts}
    \cup {record(SheetRow("Goa", ph, "X", 2025)) : ph \in MigratePhaseTexts}

InitMigrate ==
    /\ reports \in Tables(MigrateRows, MaxMigrateReports)
    /\ states = {}
    /\ rusa_phases = {}
    /\ components = {}
    /\ resp = NoResponse
    /\ nav = NavIdle
    /\ migration = MigrationIdle
    /\ load = LoadIdle
    /\ populate = PopulateIdle

NextMigrate ==
    \/ MigrateSeedStates
    \/ MigrateSeedPhases
    \/ MigrateReports
    \/ MigrateRaises

SpecMigrate == InitMigrate /\ [][NextMigrate]_vars

\* C9: a run of migrate-data that follows a completed run, with no load in
\* between, leaves every report's state_id and rusa_phase_id as the earlier
\* run left them, adds no State and no RusaPhase row, and reports the same
\* unmatched states and unmatched phases.
C9_MigrateIdempotent ==
    \A n \in 2..Len(migration.runs) :
        LET first == migration.runs[n - 1]
            second == migration.runs[n]
        IN  /\ \A i \in DOMAIN first.reports :
                  /\ second.reports[i].state_id = first.reports[i].state_id
                  /\ second.reports[i].rusa_phase_id = first.reports[i].rusa_phase_id
            /\ second.states = first.states
            /\ second.rusa_phases = first.rusa_phases
            /\ second.unmatched_states = first.unmatched_states
            /\ second.unmatched_phases = first.unmatched_phases

\* Two completed runs over a table in which one report was matched through
\* the normalization and another was reported as unmatched.
C9_Witness ==
    /\ Len(migration.runs) = 2
    /\ \E i \in DOMAIN reports :
          /\ reports[i].state \in {" kerala ", "Andaman and Nicobar Islands",
                                   "Dadra and Nagar Haveli"}
          /\ reports[i].state_id # NullInt
    /\ migration.runs[2].unmatched_states # {}

-----------------------------------------------------------------------------
(* load-data: the command. reports is the fact table as the command's        *)
(* session sees it; load.journal is the content the open transaction would   *)
(* roll back to.                                                             *)

\* The table without what the open transaction did to it.
RollbackUndone(journal, current) == current

\* db.session.rollback().
Rollback(journal, current) == journal

\* Opens the transaction and deletes every row of mpr_report.
LoadClear ==
    /\ load.pc \in {"idle", "failed", "loaded"}
    /\ load.runs < MaxRuns
    /\ reports' = <<>>
    /\ load' = [pc |-> "read", runs |-> load.runs + 1, before |-> reports,
                journal |-> reports, sheet |-> <<>>, discarded |-> 0]
    /\ UNCHANGED <<states, rusa_phases, components, resp, nav, migration, populate>>

\* pd.read_excel finds no file: except FileNotFoundError.
LoadFileNotFound ==
    /\ load.pc = "read"
    /\ reports' = Rollback(load.journal, reports)
    /\ load' = [load EXCEPT !.pc = "failed", !.journal = <<>>]
    /\ UNCHANGED <<states, rusa_phases, components, resp, nav, migration, populate>>

\* pd.read_excel returns the sheet.
LoadRead(sheet) ==
    /\ load.pc = "read"
    /\ load' = [load EXCEPT !.pc = "add", !.sheet = sheet]
    /\ UNCHANGED <<reports, states, rusa_phases, components, resp, nav, migration, populate>>

\* One turn of the loop over the sheet's rows.
LoadAdd ==
    /\ load.pc = "add"
    /\ Len(reports) < Len(load.sheet)
    /\ reports' = Append(reports, record(load.sheet[Len(reports) + 1]))
    /\ UNCHANGED <<states, rusa_phases, components, resp, nav, migration, load, populate>>

\* db.session.commit() after the last row.
LoadCommit ==
    /\ load.pc = "add"
    /\ Len(reports) = Len(load.sheet)
    /\ load' = [load EXCEPT !.pc = "loaded", !.journal = <<>>]
    /\ UNCHANGED <<reports, states, rusa_phases, components, resp, nav, migration, populate>>

\* Any other exception, in the read, in a turn of the loop or in the commit:
\* except Exception.
LoadRaises ==
    /\ load.pc \in {"read", "add"}
    /\ reports' = Rollback(load.journal, reports)
    /\ load' = [load EXCEPT !.pc = "failed", !.journal = <<>>,
                            !.discarded = Len(reports)]
    /\ UNCHANGED <<states, rusa_phases, components, resp, nav, migration, populate>>

(* Specification SpecLoad: load-data run up to MaxRuns times, over a table   *)
(* of migrated rows, with a file that is missing or holds up to MaxSheetRows *)
(* rows.                                                                     *)

LoadSheetRows ==
    {SheetRow("Kerala", "RUSA 1", "X", 2025),
     SheetRow("Goa", "RUSA 2", NaN, 2025),
     SheetRow(NaN, "RUSA 1", "Y", 2024)}

Sheets == UNION {[1..k -> LoadSheetRows] : k \in 0..MaxSheetRows}

PreviousRows ==
    {BaseRow, record(SheetRow("Kerala", "RUSA 1", "X", 2025))}

InitLoad ==
    /\ reports \in Tables(PreviousRows, MaxReports)
    /\ states = SeededTable(STATES)
    /\ rusa_phases = SeededTable(RUSA_PHASES)
    /\ components = SeededTable(COMPONENTS)
    /\ resp = NoResponse
    /\ nav = NavIdle
    /\ migration = MigrationIdle
    /\ load = LoadIdle
    /\ populate = PopulateIdle

NextLoad ==
    \/ LoadClear
    \/ LoadFileNotFound
    \/ \E sheet \in Sheets : LoadRead(sheet)
    \/ LoadAdd
    \/ LoadCommit
    \/ LoadRaises

SpecLoad == InitLoad /\ [][NextLoad]_vars

\* C10: when load-data has ended on a missing file or on an exception, the
\* fact table holds exactly the rows it held before the command; when it has
\* ended in success, the fact table holds exactly one row per row of the
\* sheet, made from that row, and no row from before.
C10_LoadAllOrNothing ==
    /\ load.pc = "failed" => reports = load.before
    /\ load.pc = "loaded" =>
          /\ Len(reports) = Len(load.sheet)
          /\ \A i \in DOMAIN reports : reports[i] = record(load.sheet[i])

\* A run over a table that held rows ended on an exception after the sheet's
\* rows had been added, and the table holds the earlier rows again.
C10_Witness ==
    /\ load.pc = "failed"
    /\ load.before # <<>>
    /\ load.discarded > 0
    /\ reports = load.before

-----------------------------------------------------------------------------
(* Specification SpecOrder: the listing and the (year, months) summary over  *)
(* tables of rows that differ in the columns the orders read.                *)

OrderRow(yr, mon, st, ph) ==
    MprReport(st, ph, "Equity Initiative", "X", "D1", "Ongoing", yr, mon, "Yes")

OrderRows ==
    {OrderRow(2025, "October", "Kerala", "RUSA 1"),
     OrderRow(2025, "October", "Goa", "RUSA 1"),
     OrderRow(2025, "October", "Goa", "RUSA 2"),
     OrderRow(2025, "October", UnmatchedState, "RUSA 1"),
     OrderRow(2025, "June", "Kerala", "RUSA 1"),
     OrderRow(2025, "october", "Kerala", "RUSA 1"),
     OrderRow(2025, NullStr, "Goa", "RUSA 1"),
     OrderRow(2024, "December", "Kerala", "RUSA 1"),
     OrderRow(2024, "october", "Goa", "RUSA 2"),
     OrderRow(NullInt, "October", "Kerala", "RUSA 1")}

OrderRequests == {NoFilters, With("state", {"Goa", "Kerala"})}

InitOrder ==
    /\ reports \in Tables(OrderRows, MaxOrderReports)
    /\ states = SeededTable(STATES)
    /\ rusa_phases = SeededTable(RUSA_PHASES)
    /\ components = SeededTable(COMPONENTS)
    /\ resp = NoResponse
    /\ nav = NavIdle
    /\ migration = MigrationIdle
    /\ load = LoadIdle
    /\ populate = PopulateIdle

NextOrder == resp = NoResponse /\ \E f \in OrderRequests : Records(f, NoPage)

SpecOrder == InitOrder /\ [][NextOrder]_vars

MonthNames ==
    <<"January", "February", "March", "April", "May", "June", "July", "August",
      "September", "October", "November", "December">>

\* 1..12 for the twelve English month names, 0 for every other value.
MonthRank(m) ==
    IF \E k \in DOMAIN MonthNames : MonthNames[k] = m
    THEN CHOOSE k \in DOMAIN MonthNames : MonthNames[k] = m
    ELSE 0

\* Periods a then b are in reverse chronological order.
ReverseChronological(ya, ma, yb, mb) ==
    /\ (ya # NullInt /\ yb # NullInt) => ya >= yb
    /\ ya = yb => MonthRank(ma) >= MonthRank(mb)

\* C11: of two rows of the listing, the earlier one has the later year; in
\* one year it has the higher month rank, the twelve month names ranking
\* 1..12 and every other value 0, so that a row with an unrecognized month
\* never precedes a row of its year with a recognized one; in one year and
\* rank it has the smaller state name, and in one state the smaller phase
\* name. The (year, months) summary is in the same reverse chronological
\* order.
C11_ListingOrder ==
    resp.kind = "ok" =>
        /\ \A m, n \in DOMAIN resp.items : m < n =>
              LET a == reports[resp.items[m]]
                  b == reports[resp.items[n]]
              IN  /\ ReverseChronological(a.year, a.months, b.year, b.months)
                  /\ (a.year = b.year /\ MonthRank(b.months) > 0)
                        => MonthRank(a.months) > 0
                  /\ (/\ a.year = b.year /\ MonthRank(a.months) = MonthRank(b.months)
                      /\ StateName(a) # NullStr /\ StateName(b) # NullStr)
                        => /\ Collate(StateName(a)) <= Collate(StateName(b))
                           /\ (/\ StateName(a) = StateName(b)
                               /\ RusaPhaseName(a) # NullStr
                               /\ RusaPhaseName(b) # NullStr)
                                 => Collate(RusaPhaseName(a)) <= Collate(RusaPhaseName(b))
        /\ "month_year_summary" \in DOMAIN resp.summary_data =>
              \A m, n \in DOMAIN resp.summary_data.month_year_summary : m < n =>
                  LET a == resp.summary_data.month_year_summary[m]
                      b == resp.summary_data.month_year_summary[n]
                  IN  ReverseChronological(a[1], a[2], b[1], b[2])

\* A listing of three rows of one year: a recognized month first, then two
\* rows whose months rank 0, a differently-cased month name among them.
C11_Witness ==
    /\ resp.kind = "ok"
    /\ Len(resp.items) = 3
    /\ \A n \in 1..3 : reports[resp.items[n]].year = 2025
    /\ reports[resp.items[1]].months = "June"
    /\ {reports[resp.items[2]].months, reports[resp.items[3]].months}
          = {"october", NullStr}
    /\ Len(resp.summary_data.month_year_summary) = 3

-----------------------------------------------------------------------------
(* Specification SpecPage: the pages of the listing over tables of up to     *)
(* MaxPageReports rows, enough for a third page, under every kind of page    *)
(* parameter.                                                                *)

\* Row i of the table: the years are scattered so that the listing's order
\* is not the table's, and rows 1 and 3 are a pair the order does not tell
\* apart.
PageRow(i) ==
    MprReport("Kerala", "RUSA 1", "Equity Initiative", "X", "D1", "Ongoing",
              2000 + ((7 * (IF i = 3 THEN 1 ELSE i)) % 43),
              IF i % 2 = 0 THEN "October" ELSE "June", "Yes")

PageRequests == {NoFilters, With("months", {"October"})}

PageValues ==
    {NoPage, "", "abc", "0", "-1", "2", "3",
     "461168601842738791", "461168601842738792"}

InitPage ==
    /\ \E n \in 0..MaxPageReports : reports = [i \in 1..n |-> PageRow(i)]
    /\ states = SeededTable(STATES)
    /\ rusa_phases = SeededTable(RUSA_PHASES)
    /\ components = SeededTable(COMPONENTS)
    /\ resp = NoResponse
    /\ nav = NavIdle
    /\ migration = MigrationIdle
    /\ load = LoadIdle
    /\ populate = PopulateIdle

NextPage ==
    resp = NoResponse /\ \E f \in PageRequests, page \in PageValues : Records(f, page)

SpecPage == InitPage /\ [][NextPage]_vars

\* Rows 20(p-1)+1 .. 20p of a listing, as far as it reaches.
RowsOfPage(listing, p) ==
    [k \in 1..(IF Len(listing) >= 20 * p THEN 20
               ELSE IF Len(listing) > 20 * (p - 1) THEN Len(listing) - 20 * (p - 1)
               ELSE 0) |->
        listing[20 * (p - 1) + k]]

\* C12 (as claimed): whatever the page parameter, the request is answered
\* without error with at most 20 rows; a missing or non-integer page and a
\* page below 1 give rows 1..20 of the sorted filtered result, page p gives
\* rows 20(p-1)+1 .. 20p, and a page beyond the last gives no row.
C12_PagesOfTwentyNoError ==
    resp.kind # "none" =>
        /\ resp.kind = "ok"
        /\ Len(resp.items) <= 20
        /\ \E listing \in SortedQuery(resp.filters) :
              resp.items =
                 CASE resp.page \in {NoPage, "", "abc", "0", "-1"} -> RowsOfPage(listing, 1)
                   [] resp.page = "2" -> RowsOfPage(listing, 2)
                   [] resp.page = "3" -> RowsOfPage(listing, 3)
                   [] OTHER -> <<>>

-----------------------------------------------------------------------------
\* The project key an entry of missing_ongoing_projects shows.
EntryKey(e) ==
    <<e.state, e.rusa_phase, e.component_name, e.institution_name, e.district>>

\* C14: missing_total_count is the number of entries of
\* missing_ongoing_projects, missing_pm_count the number of those entries
\* with is_pm_launched true, hence at most missing_total_count, and no two
\* entries have the same project key.
C14_MissingCountsAgreeWithList ==
    HasMissingSummary =>
        LET list == resp.summary_data.missing_ongoing_projects
        IN  /\ resp.summary_data.missing_total_count = Len(list)
            /\ resp.summary_data.missing_pm_count =
                  Cardinality({n \in DOMAIN list : list[n].is_pm_launched})
            /\ resp.summary_data.missing_pm_count <= resp.summary_data.missing_total_count
            /\ \A m, n \in DOMAIN list : m # n => EntryKey(list[m]) # EntryKey(list[n])

\* Of two projects one is listed, and it is PM-launched.
C14_Witness ==
    /\ HasMissingSummary
    /\ Len(reports) = 2
    /\ reports[1].institution_name # reports[2].institution_name
    /\ resp.summary_data.missing_total_count = 1
    /\ resp.summary_data.missing_pm_count = 1
    /\ Len(resp.summary_data.missing_ongoing_projects) = 1

-----------------------------------------------------------------------------
(* populate-restored-columns. *)

\* The keys of filter_criteria.
NaturalKey ==
    {"state", "rusa_phase", "component_name", "institution_name", "district",
     "months", "year"}

\* The columns the command assigns.
RestoredColumns ==
    {"benfits_from_the_projects_please_provide_details_",
     "number_of_students_benefitted", "number_of_faculties_benefitted",
     "number_of_research_works_being_undertaken",
     "physical_inspection_reports_pir_", "pir_uploaded_yes_no_not_selected_"}

\* None for an empty cell (df.replace({np.nan: None}), get_value).
NoneIfNa(row, col) ==
    IF col \in IntColumns THEN row[col]
    ELSE IF row[col] = NaN THEN NullStr
    ELSE row[col]

filter_criteria(row) == [k \in NaturalKey |-> NoneIfNa(row, k)]

\* Query.filter_by raises InvalidRequestError for a keyword that is no
\* attribute of MprReport.
FilterByRaises(criteria) == ~(DOMAIN criteria \subseteq Columns)

\* The rows filter_by(**criteria) selects: column = value, or column IS NULL
\* for None.
Matching(criteria) ==
    {i \in DOMAIN reports :
        \A k \in DOMAIN criteria \cap Columns : reports[i][k] = criteria[k]}

\* The record after the six assignments.
Restored(r, row) ==
    [col \in DOMAIN r |-> IF col \in RestoredColumns THEN NoneIfNa(row, col) ELSE r[col]]

\* pd.read_excel finds the file and returns the sheet.
PopulateRead(sheet) ==
    /\ populate.pc = "idle"
    /\ populate' = [PopulateIdle EXCEPT !.pc = "rows", !.sheet = sheet,
                                         !.before = reports]
    /\ UNCHANGED <<reports, states, rusa_phases, components, resp, nav, migration, load>>

\* pd.read_excel finds no file: except FileNotFoundError.
PopulateFileNotFound ==
    /\ populate.pc = "idle"
    /\ populate' = [PopulateIdle EXCEPT !.pc = "missing", !.before = reports]
    /\ UNCHANGED <<reports, states, rusa_phases, components, resp, nav, migration, load>>

\* One turn of the loop. An exception of filter_by ends the command in
\* except Exception, which rolls the session back; .first() has no ORDER BY,
\* so the matching row it returns is the database's choice.
PopulateRow ==
    /\ populate.pc = "rows"
    /\ populate.done < Len(populate.sheet)
    /\ LET row == populate.sheet[populate.done + 1]
       IN  IF FilterByRaises(filter_criteria(row))
           THEN /\ reports' = populate.before
                /\ populate' = [populate EXCEPT !.pc = "failed"]
           ELSE IF Matching(filter_criteria(row)) = {}
           THEN /\ reports' = reports
                /\ populate' = [populate EXCEPT !.done = @ + 1,
                                                !.not_found_count = @ + 1]
           ELSE /\ \E i \in Matching(filter_criteria(row)) :
                      reports' = [reports EXCEPT ![i] = Restored(@, row)]
                /\ populate' = [populate EXCEPT !.done = @ + 1,
                                                !.update_count = @ + 1]
    /\ UNCHANGED <<states, rusa_phases, components, resp, nav, migration, load>>

\* db.session.commit() after the last row, and the report of the two counts.
PopulateCommit ==
    /\ populate.pc = "rows"
    /\ populate.done = Len(populate.sheet)
    /\ populate' = [populate EXCEPT !.pc = "done"]
    /\ UNCHANGED <<reports, states, rusa_phases, components, resp, nav, migration, load>>

(* Specification SpecPopulate: one run of populate-restored-columns over a   *)
(* table of loaded rows and a sheet of up to MaxSheetRows rows, some of      *)
(* whose natural keys no fact row has.                                       *)

PopulateSheetRow(inst, benefit) ==
    [s_no |-> 1, state |-> "Kerala", rusa_phase |-> "RUSA 1",
     component_name |-> "Equity Initiative", institution_name |-> inst,
     district |-> "D1", months |-> "October", year |-> 2025,
     benfits_from_the_projects_please_provide_details_ |-> benefit,
     number_of_students_benefitted |-> 40,
     number_of_faculties_benefitted |-> 4,
     number_of_research_works_being_undertaken |-> 2,
     physical_inspection_reports_pir_ |-> "PIR",
     pir_uploaded_yes_no_not_selected_ |-> "Yes"]

PopulateSheetRows ==
    {PopulateSheetRow(inst, benefit) : inst \in {"X", "Y", "Z"}, benefit \in {"Labs", NaN}}

PopulateSheets == UNION {[1..k -> PopulateSheetRows] : k \in 0..MaxSheetRows}

\* Fact rows as load-data made them from the same sheet rows.
PopulateFactRows == {record(PopulateSheetRow(inst, NaN)) : inst \in {"X", "Y"}}

InitPopulate ==
    /\ reports \in Tables(PopulateFactRows, MaxReports)
    /\ states = SeededTable(STATES)
    /\ rusa_phases = SeededTable(RUSA_PHASES)
    /\ components = SeededTable(COMPONENTS)
    /\ resp = NoResponse
    /\ nav = NavIdle
    /\ migration = MigrationIdle
    /\ load = LoadIdle
    /\ populate = PopulateIdle

NextPopulate ==
    \/ \E sheet \in PopulateSheets : PopulateRead(sheet)
    \/ PopulateFileNotFound
    \/ PopulateRow
    \/ PopulateCommit

SpecPopulate == InitPopulate /\ [][NextPopulate]_vars

\* The natural key of a sheet row or of a fact row, on the columns both have.
KeyOnColumns(r) == [k \in NaturalKey \cap Columns |-> r[k]]

\* C15 (as claimed): a run that has read its sheet goes through every row
\* and ends with updated + not-found equal to the number of sheet rows, a row
\* whose key no fact row has being counted as not-found; a fact row changes
\* in its six supplementary columns only, and only if its key is a sheet
\* row's.
C15_PopulateCountsAndFrame ==
    (populate.pc \in {"done", "failed"}) =>
        /\ populate.pc = "done"
        /\ populate.update_count + populate.not_found_count = Len(populate.sheet)
        /\ populate.not_found_count >=
              Cardinality({n \in DOMAIN populate.sheet :
                  \A i \in DOMAIN populate.before :
                      KeyOnColumns(populate.before[i])
                          # KeyOnColumns(filter_criteria(populate.sheet[n]))})
        /\ \A i \in DOMAIN reports :
              /\ \A col \in Columns \ RestoredColumns :
                    reports[i][col] = populate.before[i][col]
              /\ (\A n \in DOMAIN populate.sheet :
                      KeyOnColumns(populate.before[i])
                          # KeyOnColumns(filter_criteria(populate.sheet[n])))
                    => reports[i] = populate.before[i]

-----------------------------------------------------------------------------
\* The reference names and the aliases of the states, and the reference
\* names of the phases, lowercased, trimmed and with '&' replaced by 'and'.
StateKeys ==
    {normalize_name(STATES[n]) : n \in DOMAIN STATES}
    \cup {Spell("dadra and nagar haveli"),
          Spell("the dadra and nagar haveli and daman and diu")}

PhaseKeys == {normalize_name(RUSA_PHASES[n]) : n \in DOMAIN RUSA_PHASES}

\* What C16 says of one text of a report, the foreign key the run left and
\* the unmatched set the run reported.
UnmatchedHandled(text, keys, fk, reported) ==
    /\ (text \notin {NullStr, ""} /\ normalize_name(text) \notin keys)
          => fk = NullInt /\ text \in reported
    /\ text \in {NullStr, ""} => fk = NullInt /\ text \notin reported

\* C16: every run of migrate-data that reached its matching loop went to the
\* end and committed; after it, a report whose state (resp. phase) text
\* normalizes to no reference name or alias has a null state_id (resp.
\* rusa_phase_id) and its raw text is in the reported unmatched set, and a
\* report whose text is null or empty has a null key and is not reported.
C16_UnmatchedTextReportedKeyNull ==
    /\ \A n \in DOMAIN migration.runs :
          \A i \in DOMAIN migration.runs[n].reports :
              LET run == migration.runs[n]
                  r == run.reports[i]
              IN  /\ UnmatchedHandled(r.state, StateKeys, r.state_id,
                                      run.unmatched_states)
                  /\ UnmatchedHandled(r.rusa_phase, PhaseKeys, r.rusa_phase_id,
                                      run.unmatched_phases)
    /\ (migration.pc = "idle" /\ migration.runs # <<>>)
          => reports = migration.runs[Len(migration.runs)].reports

\* A completed run over a report with an unknown state, a report whose state
\* is blank or null, and an unknown phase.
C16_Witness ==
    /\ migration.pc = "idle"
    /\ migration.runs # <<>>
    /\ UnmatchedState \in migration.runs[1].unmatched_states
    /\ \E i \in DOMAIN reports : reports[i].state = NullStr
    /\ \E i \in DOMAIN reports :
          reports[i].state = UnmatchedState /\ reports[i].state_id = NullInt

=============================================================================
